---------------------------- MODULE Spec2Model ----------------------------
(***************************************************************************)
(* A model of the InfluxDB client of djthorpe/influxdb: the identifier     *)
(* quoter (quote.go), the SELECT statement builder (statement code in      *)
(* cmd/influx_ctl/main.go) and the client facade with its response mapping *)
(* (influxdb.go).                                                          *)
(*                                                                         *)
(* Go strings on which the code works character by character are modelled  *)
(* as sequences of one-character strings.  Names that the code only        *)
(* compares for equality (database names, series names, error values) are  *)
(* modelled as TLA+ strings.                                               *)
(***************************************************************************)
EXTENDS Integers, Sequences, FiniteSets, TLC

VARIABLES
    value,      \* Quote: the argument
    quoted,     \* Quote: the returned string, once called
    f,          \* DataSource.String: the receiver
    rendered,   \* DataSource.String: the returned string, once called
    stmt,       \* the Statement returned by Select: Nil, or a pointer to the s struct
    q,          \* the text returned by the last s.Statement() call, once called
    hist,       \* history: the arguments of the last Columns, Limit, Offset calls
    phase,      \* "new" before Open, "live", "failed" (Open returned an error), "crashed"
    client,     \* Client.client: Nil or Handle
    database,   \* Client.database
    version,    \* Client.version
    transport,  \* the transport created by Open: "none", "open" or "closed"
    closeCalls, \* how many times the transport's Close was called
    closed,     \* history: Client.Close has been called
    call,       \* the last operation called on the client and its argument
    resp,       \* the response the transport delivered during the last operation
    sent,       \* the query the last operation submitted to the transport
    ret         \* what the last operation returned

vars == <<value, quoted, f, rendered, stmt, q, hist, phase, client, database,
          version, transport, closeCalls, closed, call, resp, sent, ret>>

quoteVars  == <<value, quoted>>
sourceVars == <<f, rendered>>
stmtVars   == <<stmt, q, hist>>
clientVars == <<phase, client, database, version, transport, closeCalls,
                closed, call, resp, sent, ret>>

----------------------------------------------------------------------------
(* Bounds *)

\* longest identifier given to Quote
MaxLen == 3
\* most data sources given to Select
MaxSources == 2
\* most rows in a series delivered by the transport
MaxRows == 2

----------------------------------------------------------------------------
(* Strings *)

\* the result of a call that has not been made, and of one that returned out
NotCalled == [called |-> FALSE, out |-> <<>>]

Returned(out) == [called |-> TRUE, out |-> out]

\* a Go pointer (or interface value): a sequence that is empty for nil and
\* holds the value it points to otherwise
Nil == <<>>

Ptr(x) == <<x>>

Deref(p) == p[1]

Letters ==
    {"a","b","c","d","e","f","g","h","i","j","k","l","m",
     "n","o","p","q","r","s","t","u","v","w","x","y","z",
     "A","B","C","D","E","F","G","H","I","J","K","L","M",
     "N","O","P","Q","R","S","T","U","V","W","X","Y","Z"}

Digits == {"0","1","2","3","4","5","6","7","8","9"}

\* the characters identifiers are built from in the model: a letter, a digit,
\* the underscore, the two characters Quote escapes and one it does not
Alphabet == {"a", "1", "_", "\\", "\"", "-"}

RECURSIVE StringsUpTo(_, _)
StringsUpTo(A, n) ==
    IF n = 0 THEN {<<>>}
    ELSE LET shorter == StringsUpTo(A, n - 1)
         IN  shorter \cup {Append(s, c) : s \in {t \in shorter : Len(t) = n - 1}, c \in A}

HasPrefix(s, p) ==
    /\ Len(s) >= Len(p)
    /\ SubSeq(s, 1, Len(p)) = p

HasSuffix(s, p) ==
    /\ Len(s) >= Len(p)
    /\ SubSeq(s, Len(s) - Len(p) + 1, Len(s)) = p

\* strings.Replace(s, old, new, -1) for a non-empty old: the non-overlapping
\* occurrences of old, found left to right, are replaced by new
RECURSIVE Replace(_, _, _)
Replace(s, old, new) ==
    IF Len(s) < Len(old) THEN s
    ELSE IF HasPrefix(s, old)
         THEN new \o Replace(SubSeq(s, Len(old) + 1, Len(s)), old, new)
         ELSE <<Head(s)>> \o Replace(Tail(s), old, new)

\* strings.TrimSuffix
TrimSuffix(s, suffix) ==
    IF HasSuffix(s, suffix) THEN SubSeq(s, 1, Len(s) - Len(suffix)) ELSE s

IsSpace(c) == c \in {" ", "\t", "\n", "\r"}

\* strings.TrimSpace
RECURSIVE TrimSpace(_)
TrimSpace(s) ==
    IF s = <<>> THEN s
    ELSE IF IsSpace(Head(s)) THEN TrimSpace(Tail(s))
    ELSE IF IsSpace(s[Len(s)]) THEN TrimSpace(SubSeq(s, 1, Len(s) - 1))
    ELSE s

\* strings.Join
RECURSIVE Join(_, _)
Join(parts, sep) ==
    IF parts = <<>> THEN <<>>
    ELSE IF Len(parts) = 1 THEN parts[1]
    ELSE parts[1] \o sep \o Join(Tail(parts), sep)

----------------------------------------------------------------------------
(* quote.go *)

\* regexpBareIdentifier = "^[A-Za-z_][A-Za-z0-9_]*$", matched from the left
RECURSIVE MatchRest(_)
MatchRest(s) ==
    IF s = <<>> THEN TRUE
    ELSE /\ Head(s) \in Letters \cup Digits \cup {"_"}
         /\ MatchRest(Tail(s))

isBareIdentifier(s) ==
    /\ s # <<>>
    /\ Head(s) \in Letters \cup {"_"}
    /\ MatchRest(Tail(s))

escapeString_Swapped(s) ==
    Replace(Replace(s, <<"\"">>, <<"\\", "\"">>), <<"\\">>, <<"\\", "\\">>)

escapeString(s) ==
    Replace(Replace(s, <<"\\">>, <<"\\", "\\">>), <<"\"">>, <<"\\", "\"">>)

Quote_KeepsBackslash(s) ==
    IF s = <<>> THEN s
    ELSE IF isBareIdentifier(s) THEN s
    ELSE <<"\"">> \o Replace(s, <<"\"">>, <<"\\", "\"">>) \o <<"\"">>

Quote(s) ==
    IF s = <<>> THEN s
    ELSE IF isBareIdentifier(s) THEN s
    ELSE <<"\"">> \o escapeString(s) \o <<"\"">>

\* the identifiers Quote is called with
Identifiers == StringsUpTo(Alphabet, MaxLen)

QuoteIdle == value = <<>> /\ quoted = NotCalled

QuoteInit == value \in Identifiers /\ quoted = NotCalled

\* a call of Quote(value)
CallQuote ==
    /\ ~quoted.called
    /\ quoted' = Returned(Quote(value))
    /\ UNCHANGED value

----------------------------------------------------------------------------
(* The statement builder: cmd/influx_ctl/main.go, lines 117-287 *)

\* QuoteIdentifier is called by DataSource.String and defined nowhere in the
\* sources at hand; the specification names Quote as the identifier quoter
QuoteIdentifier(s) == Quote(s)

DataSourceString_NoPlaceholder(d) ==
    LET p1 == IF d.Database # <<>> THEN <<QuoteIdentifier(d.Database)>> ELSE <<>>
        p2 == IF d.RetentionPolicy # <<>>
              THEN Append(p1, QuoteIdentifier(d.RetentionPolicy))
              ELSE p1
        p3 == IF d.Measurement # <<>>
              THEN Append(p2, QuoteIdentifier(d.Measurement))
              ELSE p2
    IN  Join(p3, <<".">>)

\* func (f *DataSource) String()
DataSourceString(d) ==
    LET p1 == IF d.Database # <<>> THEN <<QuoteIdentifier(d.Database)>> ELSE <<>>
        p2 == IF d.RetentionPolicy # <<>>
              THEN Append(p1, QuoteIdentifier(d.RetentionPolicy))
              ELSE IF d.Database # <<>> THEN Append(p1, <<>>) ELSE p1
        p3 == IF d.Measurement # <<>>
              THEN Append(p2, QuoteIdentifier(d.Measurement))
              ELSE p2
    IN  Join(p3, <<".">>)

DataSource(db, rp, m) == [Database |-> db, RetentionPolicy |-> rp, Measurement |-> m]

\* the names a DataSource is built from: absent, two bare ones, one to quote
SourceNames == {<<>>, <<"m">>, <<"d", "b">>, <<"a", "-">>}

SourceIdle == f = DataSource(<<>>, <<>>, <<>>) /\ rendered = NotCalled

SourceInit ==
    /\ f \in {DataSource(db, rp, m) : db \in SourceNames, rp \in SourceNames, m \in SourceNames}
    /\ rendered = NotCalled

\* a call of f.String()
CallDataSourceString ==
    /\ ~rendered.called
    /\ rendered' = Returned(DataSourceString(f))
    /\ UNCHANGED f

DigitChars == <<"0", "1", "2", "3", "4", "5", "6", "7", "8", "9">>

\* fmt.Sprintf("%v", n) of a uint
RECURSIVE FormatUint(_)
FormatUint(n) ==
    IF n < 10 THEN <<DigitChars[n + 1]>>
    ELSE Append(FormatUint(n \div 10), DigitChars[(n % 10) + 1])

\* func (o *offsetlimit) String()
offsetlimitString(o) ==
    IF o.Limit = 0 /\ o.Offset = 0 THEN <<>>
    ELSE LET s1 == IF o.Limit > 0
                   THEN <<" ", "L", "I", "M", "I", "T", " ">> \o FormatUint(o.Limit)
                   ELSE <<>>
             s2 == IF o.Offset > 0
                   THEN s1 \o <<" ", "O", "F", "F", "S", "E", "T", " ">> \o FormatUint(o.Offset)
                   ELSE s1
         IN  TrimSpace(s2)

\* func (c *columns) String()
columnsString(c) == IF c.value = <<>> THEN <<"*">> ELSE c.value

\* the loop of s.Statement() over this.d: q = q + this.d[i].String() + ","
RECURSIVE AppendSources(_, _)
AppendSources(text, d) ==
    IF d = <<>> THEN text
    ELSE AppendSources(text \o DataSourceString(Head(d)) \o <<",">>, Tail(d))

\* func (this *s) Statement()
StatementText(s) ==
    LET q1 == <<"S", "E", "L", "E", "C", "T", " ">>
        q2 == IF s.c # Nil THEN q1 \o columnsString(Deref(s.c)) ELSE q1 \o <<"*">>
        q3 == IF Len(s.d) > 0
              THEN TrimSuffix(AppendSources(q2 \o <<" ", "F", "R", "O", "M", " ">>, s.d), <<",">>)
              ELSE q2
    IN  IF s.o # Nil THEN q3 \o <<" ">> \o offsetlimitString(Deref(s.o)) ELSE q3

----------------------------------------------------------------------------
(* The client: influxdb.go *)

ErrNotConnected == "No connection"

ErrUnexpectedResponse == "Unexpected response from server"

ErrEmptyResponse == "Empty response from server"

\* the nil error
NoErr == "<nil>"

\* what an operation returned: its error, its value (Nil when it returns none)
\* and whether it panicked instead of returning
OkNil == [err |-> NoErr, val |-> Nil, panic |-> FALSE]

Ok(v) == [err |-> NoErr, val |-> Ptr(v), panic |-> FALSE]

Fail(e) == [err |-> e, val |-> Nil, panic |-> FALSE]

Panic == [err |-> NoErr, val |-> Nil, panic |-> TRUE]

\* client.Response.Error() of the transport library: the response's Err, if set
ResponseError(r) == IF r.Err # "" THEN r.Err ELSE NoErr

\* func (this *Client) query(query string): the (response, error) it returns
\* when the transport answers r
queryResult(cl, r) ==
    IF cl = Nil THEN Fail(ErrNotConnected)
    ELSE IF r.err # NoErr THEN Fail(r.err)
    ELSE IF ResponseError(r) # NoErr THEN Fail(ResponseError(r))
    ELSE Ok(r)

\* the client.Query{Command, Database} that query() submits, if any
querySent(cl, db, text) ==
    IF cl = Nil THEN Nil ELSE Ptr([Command |-> text, Database |-> db])

\* the copy of a models.Row into a Table
TableOf(series) ==
    [Name    |-> series.Name,
     Tags    |-> series.Tags,
     Columns |-> series.Columns,
     Values  |-> series.Values,
     Partial |-> series.Partial]

QueryResult_LastSeries(cl, r) ==
    LET response == queryResult(cl, r)
    IN  IF response.err # NoErr THEN Fail(response.err)
        ELSE IF Len(r.Results) # 1 THEN Fail(ErrEmptyResponse)
        ELSE IF Len(r.Results[1].Series) = 0 THEN Fail(ErrEmptyResponse)
        ELSE Ok(TableOf(r.Results[1].Series[Len(r.Results[1].Series)]))

\* func (this *Client) Query(query string) (*Table, error)
QueryResult(cl, r) ==
    LET response == queryResult(cl, r)
    IN  IF response.err # NoErr THEN Fail(response.err)
        ELSE IF Len(r.Results) # 1 THEN Fail(ErrEmptyResponse)
        ELSE IF Len(r.Results[1].Series) = 0 THEN Fail(ErrEmptyResponse)
        ELSE Ok(TableOf(r.Results[1].Series[1]))

\* the loop of queryScalar over table.Values
RECURSIVE ScanRows(_, _)
ScanRows(rows, values) ==
    IF rows = <<>> THEN Ok(values)
    ELSE LET column == Head(rows)
         IN  IF Len(column) # 1 THEN Fail(ErrUnexpectedResponse)
             ELSE IF column[1].type # "string" THEN Fail(ErrUnexpectedResponse)
             ELSE ScanRows(Tail(rows), Append(values, column[1].v))

\* func (this *Client) queryScalar(query, dataset, column string) ([]string, error);
\* table.Columns[0] of an empty slice is an index out of range, a panic
queryScalarResult(cl, r, dataset, column) ==
    LET t == QueryResult(cl, r)
        table == Deref(t.val)
    IN  IF t.err # NoErr THEN Fail(t.err)
        ELSE IF table.Name # dataset THEN Fail(ErrUnexpectedResponse)
        ELSE IF Len(table.Columns) # 1 /\ Len(table.Columns) = 0 THEN Panic
        ELSE IF Len(table.Columns) # 1 /\ table.Columns[1] # column
             THEN Fail(ErrUnexpectedResponse)
        ELSE ScanRows(table.Values, <<>>)

\* func (this *Client) ShowDatabases() ([]string, error)
ShowDatabasesResult(cl, r) ==
    IF cl = Nil THEN Fail(ErrNotConnected)
    ELSE queryScalarResult(cl, r, "databases", "name")

\* func (this *Client) GetMeasurements() ([]string, error)
GetMeasurementsResult(cl, r) ==
    IF cl = Nil THEN Fail(ErrNotConnected)
    ELSE queryScalarResult(cl, r, "measurements", "name")

Contains(list, x) == \E i \in 1..Len(list) : list[i] = x

\* func (this *Client) SetDatabase(name string) error
SetDatabaseResult(cl, name, r) ==
    IF cl = Nil THEN Fail(ErrNotConnected)
    ELSE LET databases == ShowDatabasesResult(cl, r)
         IN  IF databases.panic THEN Panic
             ELSE IF databases.err # NoErr THEN Fail(databases.err)
             ELSE IF Contains(Deref(databases.val), name) THEN OkNil
             ELSE Fail(ErrEmptyResponse)

----------------------------------------------------------------------------
(* What the transport can deliver *)

TransportError == "transport error"

ServerError == "server error"

\* client.Query returned (nil, err)
TransportFailure == [err |-> TransportError, Err |-> "", Results |-> <<>>]

\* client.Query returned a response with these results and this Err
Response(results, e) == [err |-> NoErr, Err |-> e, Results |-> results]

Result(series) == [Series |-> series]

Series(name, tags, columns, values, partial) ==
    [Name |-> name, Tags |-> tags, Columns |-> columns, Values |-> values,
     Partial |-> partial]

\* a cell of a row, as the transport decoded it
StringCell(v) == [type |-> "string", v |-> v]

NumberCell(v) == [type |-> "number", v |-> v]

\* rows: one string, another string, one number, two strings
Rows ==
    {<<StringCell("db1")>>, <<StringCell("db2")>>, <<NumberCell("7")>>,
     <<StringCell("db1"), StringCell("db2")>>}

RECURSIVE SeqsUpTo(_, _)
SeqsUpTo(S, n) ==
    IF n = 0 THEN {<<>>}
    ELSE LET shorter == SeqsUpTo(S, n - 1)
         IN  shorter \cup {Append(s, x) : s \in {t \in shorter : Len(t) = n - 1}, x \in S}

NoTags == <<>>

SomeTags == <<<<"host", "a">>>>

AllSeries ==
    {Series(name, tp[1], columns, values, tp[2]) :
        name \in {"databases", "measurements"},
        tp \in {<<NoTags, FALSE>>, <<SomeTags, TRUE>>},
        columns \in {<<>>, <<"name">>, <<"x">>, <<"name", "x">>},
        values \in SeqsUpTo(Rows, MaxRows)}

OtherSeries == Series("other", NoTags, <<"name">>, <<<<StringCell("db3")>>>>, FALSE)

\* every shape of response: no response, a server error, zero results, two
\* results, one result with zero, one or two series
Responses ==
    {TransportFailure,
     Response(<<>>, ServerError),
     Response(<<Result(<<OtherSeries>>)>>, ServerError),
     Response(<<>>, ""),
     Response(<<Result(<<>>)>>, ""),
     Response(<<Result(<<OtherSeries>>), Result(<<OtherSeries>>)>>, "")}
    \cup {Response(<<Result(<<s>>)>>, "") : s \in AllSeries}
    \cup {Response(<<Result(<<s, OtherSeries>>)>>, "") : s \in AllSeries}

DatabaseList(names) ==
    Series("databases", NoTags, <<"name">>, [i \in 1..Len(names) |-> <<StringCell(names[i])>>], FALSE)

\* the responses the client's life is explored with
FewResponses ==
    {TransportFailure,
     Response(<<>>, ServerError),
     Response(<<>>, ""),
     Response(<<Result(<<DatabaseList(<<"db1">>)>>)>>, ""),
     Response(<<Result(<<DatabaseList(<<"db1", "db2">>)>>)>>, ""),
     Response(<<Result(<<Series("measurements", NoTags, <<"name">>, <<<<StringCell("cpu")>>>>, FALSE)>>)>>, ""),
     Response(<<Result(<<Series("databases", NoTags, <<>>, <<>>, FALSE)>>)>>, "")}

DatabaseNames == {"db1", "db2", "db3"}

Queries == {<<"q">>}

----------------------------------------------------------------------------
(* The operations of the client *)

Version == "1.8"

Handle == Ptr("transport")

NoCall == [op |-> "none", arg |-> Nil]

ClientIdle ==
    /\ phase = "new"
    /\ client = Nil
    /\ database = ""
    /\ version = ""
    /\ transport = "none"
    /\ closeCalls = 0
    /\ closed = FALSE
    /\ call = NoCall
    /\ resp = Nil
    /\ sent = Nil
    /\ ret = OkNil

\* a client as a successful Open returns it
ClientLive(db) ==
    /\ phase = "live"
    /\ client = Handle
    /\ database = db
    /\ version = Version
    /\ transport = "open"
    /\ closeCalls = 0
    /\ closed = FALSE
    /\ call = NoCall
    /\ resp = Nil
    /\ sent = Nil
    /\ ret = OkNil

\* the end of every operation: what was called, what it submitted to the
\* transport and got from it, what it returned; a panic ends the program
Returns(op, arg, sn, r, rt) ==
    /\ call' = [op |-> op, arg |-> arg]
    /\ sent' = sn
    /\ resp' = IF sn = Nil THEN Nil ELSE Ptr(r)
    /\ ret' = rt
    /\ phase' = IF rt.panic THEN "crashed" ELSE phase

\* func (this *Client) Query(query string) (*Table, error)
Query(query, r) ==
    /\ phase = "live"
    /\ Returns("Query", Ptr(query), querySent(client, database, query), r,
               QueryResult(client, r))
    /\ UNCHANGED <<client, database, version, transport, closeCalls, closed>>
    /\ UNCHANGED <<quoteVars, sourceVars, stmtVars>>

SHOW_DATABASES == <<"S","H","O","W"," ","D","A","T","A","B","A","S","E","S">>

SHOW_MEASUREMENTS == <<"S","H","O","W"," ","M","E","A","S","U","R","E","M","E","N","T","S">>

\* func (this *Client) ShowDatabases() ([]string, error)
ShowDatabases(r) ==
    /\ phase = "live"
    /\ Returns("ShowDatabases", Nil, querySent(client, database, SHOW_DATABASES), r,
               ShowDatabasesResult(client, r))
    /\ UNCHANGED <<client, database, version, transport, closeCalls, closed>>
    /\ UNCHANGED <<quoteVars, sourceVars, stmtVars>>

\* func (this *Client) GetMeasurements() ([]string, error)
GetMeasurements(r) ==
    /\ phase = "live"
    /\ Returns("GetMeasurements", Nil, querySent(client, database, SHOW_MEASUREMENTS), r,
               GetMeasurementsResult(client, r))
    /\ UNCHANGED <<client, database, version, transport, closeCalls, closed>>
    /\ UNCHANGED <<quoteVars, sourceVars, stmtVars>>

SetDatabase_AssignsOnFailure(name, r) ==
    /\ phase = "live"
    /\ Returns("SetDatabase", Ptr(name), querySent(client, database, SHOW_DATABASES), r,
               SetDatabaseResult(client, name, r))
    /\ database' = IF client # Nil THEN name ELSE database
    /\ UNCHANGED <<client, version, transport, closeCalls, closed>>
    /\ UNCHANGED <<quoteVars, sourceVars, stmtVars>>

\* func (this *Client) SetDatabase(name string) error
SetDatabase(name, r) ==
    /\ phase = "live"
    /\ Returns("SetDatabase", Ptr(name), querySent(client, database, SHOW_DATABASES), r,
               SetDatabaseResult(client, name, r))
    /\ database' = IF SetDatabaseResult(client, name, r) = OkNil THEN name ELSE database
    /\ UNCHANGED <<client, version, transport, closeCalls, closed>>
    /\ UNCHANGED <<quoteVars, sourceVars, stmtVars>>

\* func (this *Client) GetVersion() string
GetVersion ==
    /\ phase = "live"
    /\ Returns("GetVersion", Nil, Nil, TransportFailure,
               IF client = Nil THEN Ok("") ELSE Ok(version))
    /\ UNCHANGED <<client, database, version, transport, closeCalls, closed>>
    /\ UNCHANGED <<quoteVars, sourceVars, stmtVars>>

\* func (this *Client) GetDatabase() string
GetDatabase ==
    /\ phase = "live"
    /\ Returns("GetDatabase", Nil, Nil, TransportFailure,
               IF client = Nil THEN Ok("") ELSE Ok(database))
    /\ UNCHANGED <<client, database, version, transport, closeCalls, closed>>
    /\ UNCHANGED <<quoteVars, sourceVars, stmtVars>>

\* func (this *Client) CreateDatabase(name string, policy *RetentionPolicy) error
CreateDatabase(name) ==
    /\ phase = "live"
    /\ Returns("CreateDatabase", Ptr(name), Nil, TransportFailure, Fail(ErrNotConnected))
    /\ UNCHANGED <<client, database, version, transport, closeCalls, closed>>
    /\ UNCHANGED <<quoteVars, sourceVars, stmtVars>>

\* func (this *Client) DropDatabase(name string) error
DropDatabase(name) ==
    /\ phase = "live"
    /\ Returns("DropDatabase", Ptr(name), Nil, TransportFailure, Fail(ErrNotConnected))
    /\ UNCHANGED <<client, database, version, transport, closeCalls, closed>>
    /\ UNCHANGED <<quoteVars, sourceVars, stmtVars>>

Close_KeepsClientOnError(closeErr) ==
    /\ phase = "live"
    /\ closed' = TRUE
    /\ IF client # Nil
       THEN /\ transport' = "closed"
            /\ closeCalls' = closeCalls + 1
            /\ client' = IF closeErr # NoErr THEN client ELSE Nil
            /\ Returns("Close", Nil, Nil, TransportFailure, Fail(closeErr))
       ELSE /\ Returns("Close", Nil, Nil, TransportFailure, OkNil)
            /\ UNCHANGED <<client, transport, closeCalls>>
    /\ UNCHANGED <<database, version>>
    /\ UNCHANGED <<quoteVars, sourceVars, stmtVars>>

\* func (this *Client) Close() error, the transport's Close returning closeErr
Close(closeErr) ==
    /\ phase = "live"
    /\ closed' = TRUE
    /\ IF client # Nil
       THEN /\ transport' = "closed"
            /\ closeCalls' = closeCalls + 1
            /\ client' = Nil
            /\ Returns("Close", Nil, Nil, TransportFailure, Fail(closeErr))
       ELSE /\ Returns("Close", Nil, Nil, TransportFailure, OkNil)
            /\ UNCHANGED <<client, transport, closeCalls>>
    /\ UNCHANGED <<database, version>>
    /\ UNCHANGED <<quoteVars, sourceVars, stmtVars>>

ErrUnknownDatabase == "Unknown database"

\* func (config Config) Open(log gopi.Logger) (gopi.Driver, error), with
\* config.Database = cfgdb, client.NewHTTPClient returning newErr, Ping
\* returning pingErr and the transport answering SetDatabase's query with r
Open(cfgdb, newErr, pingErr, r) ==
    LET set == SetDatabaseResult(Handle, cfgdb, r)
    IN  /\ phase = "new"
        /\ call' = [op |-> "Open", arg |-> Ptr(cfgdb)]
        /\ closed' = closed
        /\ IF newErr # NoErr
           THEN /\ phase' = "failed"
                /\ ret' = Fail(newErr)
                /\ UNCHANGED <<client, database, version, transport, closeCalls, resp, sent>>
           ELSE IF pingErr # NoErr
           THEN /\ phase' = "failed"
                /\ ret' = Fail(pingErr)
                /\ transport' = "closed"
                /\ closeCalls' = closeCalls + 1
                /\ client' = Nil
                /\ UNCHANGED <<database, version, resp, sent>>
           ELSE IF cfgdb = ""
           THEN /\ phase' = "live"
                /\ ret' = Ok("client")
                /\ transport' = "open"
                /\ client' = Handle
                /\ version' = Version
                /\ UNCHANGED <<database, closeCalls, resp, sent>>
           ELSE /\ phase' = IF set.panic THEN "crashed"
                            ELSE IF set.err # NoErr THEN "failed" ELSE "live"
                /\ ret' = IF set.panic THEN Panic
                          ELSE IF set.err # NoErr THEN Fail(ErrUnknownDatabase)
                          ELSE Ok("client")
                /\ transport' = "open"
                /\ client' = Handle
                /\ version' = Version
                /\ database' = IF set = OkNil THEN cfgdb ELSE database
                /\ sent' = querySent(Handle, database, SHOW_DATABASES)
                /\ resp' = Ptr(r)
                /\ UNCHANGED closeCalls
        /\ UNCHANGED <<quoteVars, sourceVars, stmtVars>>

NoHist == [cols |-> <<>>, limit |-> 0, offset |-> 0]

StmtIdle == stmt = Nil /\ q = NotCalled /\ hist = NoHist

\* func (this *Client) Select(from ...*DataSource) Statement
Select(from) ==
    /\ phase = "live"
    /\ stmt' = IF Len(from) = 0 THEN Nil ELSE Ptr([d |-> from, c |-> Nil, o |-> Nil])
    /\ q' = NotCalled
    /\ hist' = NoHist
    /\ Returns("Select", Ptr(from), Nil, TransportFailure,
               IF Len(from) = 0 THEN OkNil ELSE Ok([d |-> from, c |-> Nil, o |-> Nil]))
    /\ UNCHANGED <<client, database, version, transport, closeCalls, closed>>
    /\ UNCHANGED <<quoteVars, sourceVars>>

\* func (this *s) Limit(limit uint) Statement
Limit(limit) ==
    /\ phase = "live"
    /\ stmt # Nil
    /\ stmt' = IF Deref(stmt).o = Nil
               THEN Ptr([Deref(stmt) EXCEPT !.o = Ptr([Limit |-> limit, Offset |-> 0])])
               ELSE Ptr([Deref(stmt) EXCEPT !.o = Ptr([Deref(@) EXCEPT !.Limit = limit])])
    /\ hist' = [hist EXCEPT !.limit = limit]
    /\ UNCHANGED <<q, quoteVars, sourceVars, clientVars>>

\* func (this *s) Offset(offset uint) Statement
Offset(offset) ==
    /\ phase = "live"
    /\ stmt # Nil
    /\ stmt' = IF Deref(stmt).o = Nil
               THEN Ptr([Deref(stmt) EXCEPT !.o = Ptr([Limit |-> 0, Offset |-> offset])])
               ELSE Ptr([Deref(stmt) EXCEPT !.o = Ptr([Deref(@) EXCEPT !.Offset = offset])])
    /\ hist' = [hist EXCEPT !.offset = offset]
    /\ UNCHANGED <<q, quoteVars, sourceVars, clientVars>>

\* func (this *s) Columns(value string) Statement
Columns(v) ==
    /\ phase = "live"
    /\ stmt # Nil
    /\ stmt' = IF v = <<>>
               THEN Ptr([Deref(stmt) EXCEPT !.c = Nil])
               ELSE Ptr([Deref(stmt) EXCEPT !.c = Ptr([value |-> v])])
    /\ hist' = [hist EXCEPT !.cols = v]
    /\ UNCHANGED <<q, quoteVars, sourceVars, clientVars>>

\* a call of s.Statement() on the statement built so far
CallStatement ==
    /\ phase = "live"
    /\ stmt # Nil
    /\ q' = Returned(StatementText(Deref(stmt)))
    /\ UNCHANGED <<stmt, hist, quoteVars, sourceVars, clientVars>>

\* func (this *Client) Do(statement Statement) (*Table, error), called with the
\* value Select returned; statement.Statement() on a nil interface panics
Do(r) ==
    /\ phase = "live"
    /\ IF client = Nil
       THEN /\ Returns("Do", stmt, Nil, r, Fail(ErrNotConnected))
            /\ UNCHANGED q
       ELSE IF stmt = Nil
       THEN /\ Returns("Do", stmt, Nil, r, Panic)
            /\ UNCHANGED q
       ELSE /\ Returns("Do", stmt,
                       querySent(client, database, StatementText(Deref(stmt))), r,
                       QueryResult(client, r))
            /\ q' = Returned(StatementText(Deref(stmt)))
    /\ UNCHANGED <<client, database, version, transport, closeCalls, closed>>
    /\ UNCHANGED <<stmt, hist, quoteVars, sourceVars>>

----------------------------------------------------------------------------
(* Specifications *)

\* Quote applied to every identifier up to MaxLen characters
QuoteSpecInit == QuoteInit /\ SourceIdle /\ StmtIdle /\ ClientIdle

QuoteNext == CallQuote /\ UNCHANGED <<sourceVars, stmtVars, clientVars>>

SpecQuote == QuoteSpecInit /\ [][QuoteNext]_vars

\* DataSource.String applied to every data source over SourceNames
SourceSpecInit == QuoteIdle /\ SourceInit /\ StmtIdle /\ ClientIdle

SourceNext == CallDataSourceString /\ UNCHANGED <<quoteVars, stmtVars, clientVars>>

SpecSource == SourceSpecInit /\ [][SourceNext]_vars

\* the data sources statements are built over: a measurement alone, a database
\* and a measurement, all three segments, and a name to quote
StmtSources ==
    {DataSource(<<>>, <<>>, <<"c", "p", "u">>),
     DataSource(<<"d", "b">>, <<>>, <<"m">>),
     DataSource(<<"d", "b">>, <<"r", "p">>, <<"m">>),
     DataSource(<<>>, <<>>, <<"a", "-">>)}

Limits == {0, 5, 10}

ColumnTexts == {<<>>, <<"v">>, <<"v", ",", "t">>}

\* the statement builder on a connected client
StmtSpecInit == QuoteIdle /\ SourceIdle /\ StmtIdle /\ ClientLive("")

StmtNext ==
    \/ \E from \in SeqsUpTo(StmtSources, MaxSources) : Select(from)
    \/ \E n \in Limits : Limit(n)
    \/ \E n \in Limits : Offset(n)
    \/ \E v \in ColumnTexts : Columns(v)
    \/ CallStatement

SpecStmt == StmtSpecInit /\ [][StmtNext]_vars

\* the response mapping: one of Query, ShowDatabases and GetMeasurements on a
\* connected client, for every response.  None of the three changes the client,
\* so a further call reaches no state that a first call does not.
MapperSpecInit ==
    /\ QuoteIdle /\ SourceIdle /\ StmtIdle
    /\ \E db \in {"", "db1"} : ClientLive(db)

MapperNext ==
    \/ \E r \in Responses, query \in Queries : call = NoCall /\ Query(query, r)
    \/ \E r \in Responses : call = NoCall /\ ShowDatabases(r)
    \/ \E r \in Responses : call = NoCall /\ GetMeasurements(r)

SpecMapper == MapperSpecInit /\ [][MapperNext]_vars

\* the statements the client's life is explored with
ClientSources == {DataSource(<<>>, <<>>, <<"c", "p", "u">>)}

\* the life of a client, from Open on
ClientSpecInit == QuoteIdle /\ SourceIdle /\ StmtIdle /\ ClientIdle

ClientNext ==
    \/ \E cfgdb \in {"", "db1", "db3"}, newErr \in {NoErr, TransportError},
          pingErr \in {NoErr, TransportError}, r \in FewResponses :
            Open(cfgdb, newErr, pingErr, r)
    \/ \E closeErr \in {NoErr, TransportError} : Close(closeErr)
    \/ \E name \in DatabaseNames, r \in FewResponses : SetDatabase(name, r)
    \/ \E r \in FewResponses : ShowDatabases(r)
    \/ \E r \in FewResponses : GetMeasurements(r)
    \/ \E r \in FewResponses, query \in Queries : Query(query, r)
    \/ \E from \in SeqsUpTo(ClientSources, 1) : Select(from)
    \/ \E r \in FewResponses : Do(r)
    \/ GetVersion
    \/ GetDatabase
    \/ \E name \in DatabaseNames : CreateDatabase(name)
    \/ \E name \in DatabaseNames : DropDatabase(name)

Spec == ClientSpecInit /\ [][ClientNext]_vars

----------------------------------------------------------------------------
(* Claims *)

MapSeq(Op(_), s) == [i \in 1..Len(s) |-> Op(s[i])]

C1_Expected ==
    LET s == Deref(stmt)
    IN  <<"S", "E", "L", "E", "C", "T", " ">>
        \o (IF hist.cols = <<>> THEN <<"*">> ELSE hist.cols)
        \o <<" ", "F", "R", "O", "M", " ">>
        \o Join(MapSeq(DataSourceString, s.d), <<",">>)
        \o (IF hist.limit # 0
            THEN <<" ", "L", "I", "M", "I", "T", " ">> \o FormatUint(hist.limit)
            ELSE <<>>)
        \o (IF hist.offset # 0
            THEN <<" ", "O", "F", "F", "S", "E", "T", " ">> \o FormatUint(hist.offset)
            ELSE <<>>)

\* C1: after any sequence of Columns, Limit and Offset calls on a statement
\* built by Select over one or more data sources, Statement() is 'SELECT ',
\* the last non-empty column text or '*', ' FROM ', the rendered data sources
\* joined by ',', then ' LIMIT n' only for a last-set limit n # 0 and
\* ' OFFSET m' only for a last-set offset m # 0; it never ends in whitespace.
C1_StatementText ==
    (q.called /\ stmt # Nil) =>
        /\ q.out = C1_Expected
        /\ ~IsSpace(q.out[Len(q.out)])

C2_Q(s) == Quote(s)

C2_PresentSegments(d) ==
    SelectSeq(<<d.Database, d.RetentionPolicy, d.Measurement>>, LAMBDA x : x # <<>>)

\* C2 as stated: DataSource.String() renders the segments that are present,
\* each passed through the identifier quoter, in the order Database,
\* RetentionPolicy, Measurement, joined by a single '.'; Database=db with
\* Measurement=m renders as Quote(db) + '.' + Quote(m).
C2_PresentSegmentsJoined ==
    rendered.called =>
        rendered.out = Join(MapSeq(C2_Q, C2_PresentSegments(f)), <<".">>)

\* C2, amended: DataSource.String() renders the segments in the order
\* Database, RetentionPolicy, Measurement, each present one passed through the
\* identifier quoter, joined by a single '.', and a present Database with an
\* absent RetentionPolicy leaves an empty segment in the retention policy's
\* place: Database=db with Measurement=m renders as Quote(db) + '..' + Quote(m),
\* Measurement=m alone as Quote(m), all three as
\* Quote(db) + '.' + Quote(rp) + '.' + Quote(m).
C2_DataSourceString ==
    rendered.called =>
        rendered.out =
            IF f.Database # <<>>
            THEN C2_Q(f.Database) \o <<".">> \o C2_Q(f.RetentionPolicy)
                 \o (IF f.Measurement # <<>> THEN <<".">> \o C2_Q(f.Measurement) ELSE <<>>)
            ELSE IF f.RetentionPolicy # <<>> /\ f.Measurement # <<>>
            THEN C2_Q(f.RetentionPolicy) \o <<".">> \o C2_Q(f.Measurement)
            ELSE C2_Q(f.RetentionPolicy) \o C2_Q(f.Measurement)

\* a database to quote and a measurement, no retention policy, rendered
C2_Witness ==
    /\ rendered.called
    /\ f = DataSource(<<"a", "-">>, <<>>, <<"m">>)
    /\ rendered.out = <<"\"", "a", "-", "\"", ".", ".", "m">>

C3_Dataset == IF call.op = "ShowDatabases" THEN "databases" ELSE "measurements"

C3_GoodRow(row) == Len(row) = 1 /\ row[1].type = "string"

C3_CellValue(row) == row[1].v

\* C3: queryScalar returns ErrUnexpectedResponse, without crashing, whenever
\* the mapped table's Name differs from dataset, or the table has other than
\* exactly one column, or some row does not hold exactly one string value; in
\* every other case it returns the rows' string values in response order.
C3_QueryScalar ==
    (/\ call.op \in {"ShowDatabases", "GetMeasurements"}
     /\ resp # Nil
     /\ QueryResult(Handle, Deref(resp)).err = NoErr) =>
        LET table == Deref(QueryResult(Handle, Deref(resp)).val)
        IN  IF \/ table.Name # C3_Dataset
               \/ Len(table.Columns) # 1
               \/ \E i \in 1..Len(table.Values) : ~C3_GoodRow(table.Values[i])
            THEN ret = Fail(ErrUnexpectedResponse)
            ELSE ret = Ok(MapSeq(C3_CellValue, table.Values))

C4_Bare(x) ==
    /\ Len(x) >= 1
    /\ x[1] \in Letters \cup {"_"}
    /\ \A i \in 2..Len(x) : x[i] \in Letters \cup Digits \cup {"_"}

\* x with every backslash and every double quote preceded by a backslash
RECURSIVE C4_Escaped(_)
C4_Escaped(x) ==
    IF x = <<>> THEN <<>>
    ELSE (IF Head(x) \in {"\\", "\""} THEN <<"\\", Head(x)>> ELSE <<Head(x)>>)
         \o C4_Escaped(Tail(x))

C5_Unquote(s) ==
    LET inner == SubSeq(s, 2, Len(s) - 1)
    IN  Replace(Replace(inner, <<"\\", "\"">>, <<"\"">>), <<"\\", "\\">>, <<"\\">>)

C5_Escapes(x) == \E i \in 1..Len(x) : x[i] \in {"\\", "\""}

\* C5: for every x holding a backslash or a double quote, stripping the outer
\* double quotes of Quote(x), then replacing every backslash-double-quote by a
\* double quote and afterwards every double backslash by a backslash gives x;
\* so Quote maps distinct such strings to distinct outputs.
C5_RoundTrip ==
    (quoted.called /\ C5_Escapes(value)) =>
        /\ C5_Unquote(quoted.out) = value
        /\ \A y \in Identifiers :
              (C5_Escapes(y) /\ Quote(y) = quoted.out) => y = value

C5_Witness ==
    /\ quoted.called
    /\ value = <<"\"", "\\", "\\">>
    /\ C5_Unquote(quoted.out) = value

ErrInvalidStatement == "Invalid statement"

\* C6: Select with zero data sources fails at construction time with
\* ErrInvalidStatement and yields no usable Statement; the failure is reported
\* as an error, not deferred to the rendering or the execution of the
\* statement, and Do never renders or submits a text without a FROM clause.
C6_SelectNoSources ==
    /\ (call.op = "Select" /\ call.arg = Ptr(<<>>)) =>
            ret.err = ErrInvalidStatement /\ ret.val = Nil /\ stmt = Nil
    /\ call.op = "Do" => ~ret.panic
    /\ (call.op = "Do" /\ sent # Nil) =>
            \E i \in 1..Len(Deref(sent).Command) :
                HasPrefix(SubSeq(Deref(sent).Command, i, Len(Deref(sent).Command)),
                          <<" ", "F", "R", "O", "M", " ">>)

\* C7: Query on a connected client returns a transport or server error
\* unchanged; otherwise ErrEmptyResponse and no Table if the response does not
\* hold exactly one result or that result has no series; otherwise a Table
\* whose Name, Tags, Columns, Values and Partial are those of the first series
\* of the single result, whatever further series follow.
C7_Query ==
    (call.op = "Query" /\ resp # Nil) =>
        LET r == Deref(resp)
        IN  IF r.err # NoErr THEN ret = Fail(r.err)
            ELSE IF r.Err # "" THEN ret = Fail(r.Err)
            ELSE IF Len(r.Results) # 1 THEN ret = Fail(ErrEmptyResponse)
            ELSE IF Len(r.Results[1].Series) = 0 THEN ret = Fail(ErrEmptyResponse)
            ELSE /\ ret.err = NoErr /\ ~ret.panic /\ Len(ret.val) = 1
                 /\ Deref(ret.val).Name = r.Results[1].Series[1].Name
                 /\ Deref(ret.val).Tags = r.Results[1].Series[1].Tags
                 /\ Deref(ret.val).Columns = r.Results[1].Series[1].Columns
                 /\ Deref(ret.val).Values = r.Results[1].Series[1].Values
                 /\ Deref(ret.val).Partial = r.Results[1].Series[1].Partial

\* a response of two series, the first of them mapped
C7_Witness ==
    /\ call.op = "Query"
    /\ resp # Nil
    /\ Deref(resp).err = NoErr
    /\ Len(Deref(resp).Results) = 1
    /\ Len(Deref(resp).Results[1].Series) = 2
    /\ ret.err = NoErr
    /\ Deref(ret.val).Name = "databases"
    /\ Deref(ret.val).Partial

C8_Step ==
    /\ (call'.op = "SetDatabase" /\ client # Nil) =>
            LET name == Deref(call'.arg)
                list == ShowDatabasesResult(client, Deref(resp'))
            IN  IF list.panic THEN ret'.panic /\ database' = database
                ELSE IF list.err # NoErr
                THEN ret' = Fail(list.err) /\ database' = database
                ELSE IF ~Contains(Deref(list.val), name)
                THEN ret' = Fail(ErrEmptyResponse) /\ database' = database
                ELSE ret' = OkNil /\ database' = name
    /\ (call'.op = "GetDatabase" /\ client # Nil) => ret' = Ok(database)
    /\ sent' # Nil => Deref(sent').Database = database
    /\ (database' # database /\ phase = "live") =>
            call'.op = "SetDatabase" /\ ret' = OkNil /\ database' = Deref(call'.arg)

\* C8: SetDatabase(name) on a connected client fails with ErrEmptyResponse and
\* leaves the current database unchanged if name is not in the list that
\* ShowDatabases returns, and returns ShowDatabases' error, the database
\* unchanged, if that fails; if name is in the list it succeeds, GetDatabase
\* returns name, and every query is submitted to the transport with
\* Database = name until the next successful SetDatabase.
C8_SetDatabase == [][C8_Step]_vars

C8_Witness ==
    /\ call.op = "SetDatabase"
    /\ call.arg = Ptr("db2")
    /\ ret = OkNil
    /\ database = "db2"
    /\ sent # Nil

C9_Step ==
    closed =>
        /\ client' = Nil
        /\ call'.op \in {"SetDatabase", "ShowDatabases", "GetMeasurements", "Query", "Do"} =>
                ret' = Fail(ErrNotConnected) /\ sent' = Nil
        /\ call'.op \in {"GetDatabase", "GetVersion"} => ret' = Ok("")
        /\ call'.op = "Close" =>
                ret' = OkNil /\ closeCalls' = closeCalls /\ transport' = transport

\* C9: once Close has been called, whether or not the transport's close
\* reported an error, every later SetDatabase, ShowDatabases, GetMeasurements,
\* Query and Do returns ErrNotConnected without a call to the transport,
\* GetDatabase and GetVersion return the empty string, a second Close returns
\* nil without closing the transport again, and the client is never connected
\* again.
C9_AfterClose == [][C9_Step]_vars

C9_Witness ==
    /\ closed
    /\ call.op = "Do"
    /\ stmt # Nil
    /\ ret = Fail(ErrNotConnected)
    /\ sent = Nil
    /\ closeCalls = 1

\* C10: every call to Query returns either an error with no Table, or a Table
\* in which every row of Values is as long as Columns, for every response the
\* transport can deliver.
C10_NoPartialSuccess ==
    call.op = "Query" =>
        \/ ret.err # NoErr /\ ret.val = Nil
        \/ /\ ret.err = NoErr
           /\ ret.val # Nil
           /\ \A i \in 1..Len(Deref(ret.val).Values) :
                 Len(Deref(ret.val).Values[i]) = Len(Deref(ret.val).Columns)

\* C11: Open never leaks a transport handle: on every path where Open returns
\* an error after the transport client was created (the ping failing, or
\* SetDatabase not accepting the configured database) the transport has been
\* closed before Open returns; on success exactly one open transport is held
\* by the returned client.
C11_OpenNoLeak ==
    call.op = "Open" =>
        /\ (phase = "failed" /\ ret.err # NoErr) =>
                transport # "open" /\ (transport = "closed" => closeCalls = 1)
        /\ phase = "live" =>
                transport = "open" /\ client = Handle /\ closeCalls = 0

============================================================================
